---- MODULE Spec2Model ----
(***************************************************************************)
(* react-extras: the template-resolution and package.json-patching engine  *)
(* (templates.ts, files.ts, package-json.ts) and the CLI run that drives   *)
(* it (index.ts).                                                          *)
(*                                                                         *)
(* Six specifications share the variables:                                *)
(*   SpecPatch  updatePackageJson applied to a manifest and mods drawn     *)
(*              from bounded sets, called up to MaxCalls times             *)
(*   SpecAgg    getRequiredPackages / getPackageJsonMods applied to a      *)
(*              bounded registry of groups and a selection                 *)
(*   SpecResolve resolveGroups applied to every context, on the registry   *)
(*              of templates.ts and on bounded registries                  *)
(*   SpecDetect detectPackageManager / getPMConfig applied to every set of *)
(*              lock files                                                 *)
(*   SpecNextConfig ensureStandaloneOutput applied to every set of         *)
(*              next.config files                                          *)
(*   Spec       one run of main() over a bounded working directory         *)
(***************************************************************************)
EXTENDS Naturals, Sequences, FiniteSets, TLC

VARIABLES
    disk,           \* package.json in cwd: [exists, valid, pkg, canonical]
    mods,           \* ResolvedPackageJsonMods handed to updatePackageJson
    added,          \* the `added` list the last updatePackageJson returned
    calls,          \* updatePackageJson calls completed
    before,         \* package.json as it was when the last call started
    wrote,          \* whether the last call wrote package.json
    pkgWrites,      \* writePackageJson calls so far
    pkgReads,       \* readFileSync calls on package.json so far
    pmResult,       \* what the last detectPackageManager call returned
    pmConfig,       \* what the last getPMConfig call returned, and for which pm
    templateGroups, \* the TemplateGroup[] resolveGroups walks
    ctx,            \* GeneratorContext of the run
    groups,         \* the resolved groups (resolveGroups(ctx))
    selectedLabels, \* the labels the multiselect prompt returned
    selected,       \* groups.filter(g => selectedLabels.includes(g.label))
    requiredDeps,   \* getRequiredPackages(selected)
    groupsArg,      \* a group array handed to getPackageJsonMods directly
    modsOfArg,      \* getPackageJsonMods(groupsArg, ctx)
    aggStep,        \* SpecAgg: which aggregator calls have been made
    pc,             \* Spec: the point main() has reached
    exitCode,       \* the exit code the process ends with
    cwd,            \* the working directory besides package.json: path -> content
    atStart,        \* [cwd, disk] as they were when the run started
    existingFiles,  \* target paths checkExistingFiles found present
    filesToOverwrite, \* the paths the overwrite multiselect returned
    filesToSkip,    \* existing target paths not chosen for overwriting
    filesToApply,   \* the resolved files main hands to copyFile
    shouldContinue, \* what the confirm prompt returned ("unanswered": not yet)
    nextResult,     \* status ensureStandaloneOutput returned ("none": not run)
    fileWrites,     \* target paths copyFile has written, in order
    installs        \* install commands run: [cmd, ok, warned]

patchVars == <<disk, mods, added, calls, before, wrote, pkgWrites, pkgReads>>

aggVars == <<templateGroups, ctx, groups, selectedLabels, selected, requiredDeps,
             groupsArg, modsOfArg, aggStep>>

mainVars == <<pc, exitCode, cwd, atStart, existingFiles, filesToOverwrite,
              filesToSkip, filesToApply, shouldContinue, nextResult,
              fileWrites, installs>>

detectVars == <<pmResult, pmConfig>>

vars == <<patchVars, aggVars, mainVars, detectVars>>

(***************************************************************************)
(* Bounds                                                                  *)
(***************************************************************************)
MaxCalls == 2          \* consecutive updatePackageJson calls with the same mods
MaxModEntries == 2     \* entries per section (scripts, config) of the mods
MaxGroups == 2         \* groups in the registry of SpecAgg
MaxRegistry == 2       \* groups in a registry of SpecResolve
MaxExisting == 1       \* target paths that hold a file when a run starts
MaxFailAt == 2         \* last position in filesToApply at which copyFile may throw

(***************************************************************************)
(* Helpers on sequences and finite maps                                    *)
(***************************************************************************)
Range(s) == {s[i] : i \in 1..Len(s)}

SeqsUpTo(S, n) == UNION {[1..m -> S] : m \in 0..n}

\* finite maps over a subset of the keys K with values in V
MapsOver(K, V) == UNION {[D -> V] : D \in SUBSET K}

\* obj[key] = value on a JS object held as a finite map
Put(f, key, value) ==
    [k \in DOMAIN f \cup {key} |-> IF k = key THEN value ELSE f[k]]

EmptyMap == [k \in {} |-> ""]

(***************************************************************************)
(* package.json (package-json.ts)                                          *)
(*                                                                         *)
(* interface PackageJson { scripts?: Record<string,string>;                *)
(*                         [key: string]: unknown }                        *)
(* hasScripts: the `scripts` member is present; scripts: its entries;      *)
(* top: the other top-level members the mods may propose, each with the    *)
(* JSON value it holds (a token: "null", "false", "{}" or a custom value); *)
(* deps: the names under dependencies and devDependencies.                 *)
(* The file on disk is [exists, valid, pkg, canonical]: valid says its     *)
(* text is JSON (pkg is what it parses to), canonical that it has the      *)
(* layout JSON.stringify(pkg, null, 2) gives.                              *)
(***************************************************************************)
ScriptKeys == {"prepare", "check"}
ConfigKeys == {"lint-staged", "prettier"}

\* script values a manifest may already hold; "" is the empty command
ManifestScriptVals == {"", "custom"}
\* script values the mods may propose
ModScriptVals == {"", "husky"}
\* JSON values a manifest may hold under a top-level key
ManifestConfigVals == {"null", "false", "{}", "custom"}
ModConfigVals == {"proposed"}

PackageJson ==
    [hasScripts : BOOLEAN,
     scripts : MapsOver(ScriptKeys, ManifestScriptVals),
     top : MapsOver(ConfigKeys, ManifestConfigVals),
     deps : {{}}]

\* a parsed manifest: no `scripts` member means no script entries
WellFormedPkg(pkg) == pkg.hasScripts \/ pkg.scripts = EmptyMap

\* Object.entries of one section of the mods: distinct keys in insertion order
Entries(K, V) ==
    {e \in SeqsUpTo([key : K, value : V], MaxModEntries) :
        \A i, j \in 1..Len(e) : e[i].key = e[j].key => i = j}

ResolvedPackageJsonMods ==
    [scripts : Entries(ScriptKeys, ModScriptVals),
     config : Entries(ConfigKeys, ModConfigVals)]

\* JS truthiness of a string
Truthy(v) == v # ""

\* !pkg.scripts?.[key]
ScriptMissing(pkg, key) ==
    ~(pkg.hasScripts /\ key \in DOMAIN pkg.scripts /\ Truthy(pkg.scripts[key]))

\* !(key in pkg)
ConfigMissing_falsy(pkg, key) ==
    \/ key \notin DOMAIN pkg.top
    \/ pkg.top[key] \in {"null", "false"}

ConfigMissing(pkg, key) == key \notin DOMAIN pkg.top

\* `${key} script` / `${key} config`
ScriptDescriptor(key) == key \o " script"
ConfigDescriptor(key) == key \o " config"

\* lines 38-40: an empty scripts map is created when scripts are proposed
\* and the manifest has none
EnsureScripts(pkg, scriptEntries) ==
    IF Len(scriptEntries) > 0 /\ ~pkg.hasScripts
    THEN [pkg EXCEPT !.hasScripts = TRUE, !.scripts = EmptyMap]
    ELSE pkg

\* lines 42-49: the loop over the proposed scripts, from entry i on
RECURSIVE AddScripts(_, _, _)
AddScripts(st, scriptEntries, i) ==
    IF i > Len(scriptEntries) THEN st
    ELSE LET key == scriptEntries[i].key
             value == scriptEntries[i].value
         IN IF ScriptMissing(st.pkg, key)
            THEN AddScripts(
                    [pkg |-> [st.pkg EXCEPT !.hasScripts = TRUE,
                                            !.scripts = Put(@, key, value)],
                     added |-> Append(st.added, ScriptDescriptor(key)),
                     changed |-> TRUE],
                    scriptEntries, i + 1)
            ELSE AddScripts(st, scriptEntries, i + 1)

\* lines 51-57: the loop over the proposed config entries, from entry i on
RECURSIVE AddConfig(_, _, _)
AddConfig(st, configEntries, i) ==
    IF i > Len(configEntries) THEN st
    ELSE LET key == configEntries[i].key
             value == configEntries[i].value
         IN IF ConfigMissing(st.pkg, key)
            THEN AddConfig(
                    [pkg |-> [st.pkg EXCEPT !.top = Put(@, key, value)],
                     added |-> Append(st.added, ConfigDescriptor(key)),
                     changed |-> TRUE],
                    configEntries, i + 1)
            ELSE AddConfig(st, configEntries, i + 1)

\* lines 33-57: pkg, added and changed when the loops are done
PatchResult(pkg, m) ==
    LET start == [pkg |-> EnsureScripts(pkg, m.scripts),
                  added |-> <<>>,
                  changed |-> FALSE]
    IN AddConfig(AddScripts(start, m.scripts, 1), m.config, 1)

\* readPackageJson throws: readFileSync on a missing file, JSON.parse on
\* text that is not JSON
ReadThrows(d) == ~d.exists \/ ~d.valid

\* lines 59-61: if (changed) writePackageJson(cwd, pkg)
ShouldWrite_always(changed) == TRUE

ShouldWrite(changed) == changed

\* JSON.stringify(pkg, null, 2) + "\n": the same members, canonical layout
writePackageJson(d, pkg) ==
    [d EXCEPT !.pkg = pkg, !.canonical = TRUE]

\* the file after updatePackageJson({cwd, mods})
updatePackageJson(d, m) ==
    LET r == PatchResult(d.pkg, m)
    IN [disk |-> IF ShouldWrite(r.changed)
                 THEN writePackageJson(d, r.pkg) ELSE d,
        added |-> r.added,
        wrote |-> ShouldWrite(r.changed)]

(***************************************************************************)
(* Template registry (templates.ts)                                        *)
(*                                                                         *)
(* A file definition: targetPath is the literal path, or, when pathIsFn,   *)
(* the path the function returns when cwd has no `src` directory and       *)
(* targetPathWithSrc the one it returns when it has; when names the        *)
(* inclusion predicate. A group: packageJson names the function (or        *)
(* "literal" / "none"), literal holds a literal PackageJsonMods.           *)
(***************************************************************************)
Frameworks == {"nextjs", "vite-tanstack-router"}
Toolings == {"biome", "eslint-prettier"}
PackageManagers == {"bun", "pnpm", "yarn", "npm"}

\* GeneratorContext; srcDir is existsSync(join(ctx.cwd, "src"))
GeneratorContext ==
    [pm : PackageManagers, tooling : Toolings, framework : Frameworks,
     srcDir : BOOLEAN]

FileDef(path, content) ==
    [targetPath |-> path, targetPathWithSrc |-> path, pathIsFn |-> FALSE,
     content |-> content, when |-> "always"]

NoMods == [scripts |-> <<>>, config |-> <<>>]

TEMPLATE_GROUPS == <<
    [label |-> "Deployment + CI/CD",
     files |-> <<
        FileDef("Dockerfile", "dynamic"),
        FileDef(".github/workflows/deploy.yml", "dynamic"),
        [FileDef("nginx.conf", "static") EXCEPT !.when = "notNextjs"] >>,
     hasPackages |-> FALSE, packages |-> <<>>,
     packageJson |-> "deployScripts", literal |-> NoMods],
    [label |-> "Editor Setup",
     files |-> <<
        FileDef(".editorconfig", "static"),
        FileDef(".vscode/extensions.json", "dynamic"),
        [FileDef(".zed/settings.json", "static") EXCEPT !.when = "biome"] >>,
     hasPackages |-> FALSE, packages |-> <<>>,
     packageJson |-> "none", literal |-> NoMods],
    [label |-> "Pre-commit Hook",
     files |-> << FileDef(".husky/pre-commit", "dynamic") >>,
     hasPackages |-> TRUE, packages |-> <<"husky", "lint-staged">>,
     packageJson |-> "huskyMods", literal |-> NoMods],
    [label |-> "API Client",
     files |-> <<
        [FileDef("lib/api-client.ts", "static") EXCEPT
            !.pathIsFn = TRUE, !.targetPathWithSrc = "src/lib/api-client.ts"],
        [FileDef("lib/config.ts", "dynamic") EXCEPT
            !.pathIsFn = TRUE, !.targetPathWithSrc = "src/lib/config.ts"] >>,
     hasPackages |-> FALSE, packages |-> <<>>,
     packageJson |-> "none", literal |-> NoMods] >>

\* generators.ts getCheckScript
getCheckScript_empty(tooling) == ""

getCheckScript(tooling) ==
    IF tooling = "biome" THEN "biome check ."
    ELSE "eslint . && prettier --check ."

\* detect-tooling.ts getLintStagedConfig: the config object, as a token
getLintStagedConfig(tooling) ==
    IF tooling = "biome"
    THEN "{*: biome check --write --no-errors-on-unmatched}"
    ELSE "{*.{js,jsx,ts,tsx,css,md}: prettier --write, *.{js,jsx,ts,tsx}: eslint}"

\* def.when(ctx); a definition without `when` is always included
When_always(def, c) == TRUE

When_nginxNever(def, c) ==
    CASE def.when = "notNextjs" -> FALSE
      [] def.when = "biome" -> c.tooling = "biome"
      [] OTHER -> TRUE

When(def, c) ==
    CASE def.when = "notNextjs" -> c.framework # "nextjs"
      [] def.when = "biome" -> c.tooling = "biome"
      [] OTHER -> TRUE

\* typeof def.targetPath === "function" ? def.targetPath(ctx) : def.targetPath
TargetPathOf_literal(def, c) == def.targetPath

TargetPathOf_directory(def, c) ==
    IF def.pathIsFn THEN (IF c.srcDir THEN "src/lib" ELSE "lib")
    ELSE def.targetPath

TargetPathOf(def, c) ==
    IF def.pathIsFn /\ c.srcDir THEN def.targetPathWithSrc ELSE def.targetPath

\* typeof group.packageJson === "function" ? group.packageJson(ctx)
\*                                          : group.packageJson
\* (a section the mods leave undefined is an empty one: its loop is skipped)
EvalPackageJson(g, c) ==
    CASE g.packageJson = "deployScripts" ->
            [scripts |-> << [key |-> "check", value |-> getCheckScript(c.tooling)],
                            [key |-> "typecheck", value |-> "tsc --noEmit"] >>,
             config |-> <<>>]
      [] g.packageJson = "huskyMods" ->
            [scripts |-> << [key |-> "prepare", value |-> "husky"] >>,
             config |-> << [key |-> "lint-staged",
                            value |-> getLintStagedConfig(c.tooling)] >>]
      [] OTHER -> g.literal

(***************************************************************************)
(* Resolver and aggregator (files.ts)                                      *)
(***************************************************************************)
\* files.map(f => f.targetPath).join(", ")
RECURSIVE JoinPaths(_, _)
JoinPaths(fs, i) ==
    IF i > Len(fs) THEN ""
    ELSE IF i = Len(fs) THEN fs[i].targetPath
    ELSE fs[i].targetPath \o ", " \o JoinPaths(fs, i + 1)

\* lines 47-56: the files of one group that ctx includes, in definition order
RECURSIVE ResolveFiles_reversed(_, _, _)
ResolveFiles_reversed(defs, c, i) ==
    IF i > Len(defs) THEN <<>>
    ELSE IF ~When(defs[i], c) THEN ResolveFiles_reversed(defs, c, i + 1)
    ELSE ResolveFiles_reversed(defs, c, i + 1)
         \o << [targetPath |-> TargetPathOf(defs[i], c),
                content |-> defs[i].content] >>

RECURSIVE ResolveFiles(_, _, _)
ResolveFiles(defs, c, i) ==
    IF i > Len(defs) THEN <<>>
    ELSE IF ~When(defs[i], c) THEN ResolveFiles(defs, c, i + 1)
    ELSE << [targetPath |-> TargetPathOf(defs[i], c),
             content |-> defs[i].content] >>
         \o ResolveFiles(defs, c, i + 1)

\* lines 60-66: the ResolvedGroup pushed for a group with files
ResolvedGroupOf(group, fs) ==
    [label |-> group.label,
     hint |-> JoinPaths(fs, 1),
     files |-> fs,
     packages |-> IF group.hasPackages THEN group.packages ELSE <<>>,
     packageJson |-> group.packageJson,
     literal |-> group.literal]

\* lines 44-67: the loop over the registry, from group i on
RECURSIVE ResolveFrom_keepEmpty(_, _, _)
ResolveFrom_keepEmpty(registry, c, i) ==
    IF i > Len(registry) THEN <<>>
    ELSE << ResolvedGroupOf(registry[i], ResolveFiles(registry[i].files, c, 1)) >>
         \o ResolveFrom_keepEmpty(registry, c, i + 1)

RECURSIVE ResolveFrom(_, _, _)
ResolveFrom(registry, c, i) ==
    IF i > Len(registry) THEN <<>>
    ELSE LET fs == ResolveFiles(registry[i].files, c, 1)
         IN IF Len(fs) = 0 THEN ResolveFrom(registry, c, i + 1)
            ELSE << ResolvedGroupOf(registry[i], fs) >>
                 \o ResolveFrom(registry, c, i + 1)

resolveGroups(c) == ResolveFrom(TEMPLATE_GROUPS, c, 1)

\* deps.add(pkg) on a Set kept in insertion order
AddDep_noDedup(deps, pkg) == Append(deps, pkg)

AddDep(deps, pkg) ==
    IF pkg \in Range(deps) THEN deps ELSE Append(deps, pkg)

RECURSIVE AddDeps(_, _, _)
AddDeps(deps, packages, i) ==
    IF i > Len(packages) THEN deps
    ELSE AddDeps(AddDep(deps, packages[i]), packages, i + 1)

\* getRequiredPackages: the loop over the groups, from group i on
RECURSIVE RequiredFrom(_, _, _)
RequiredFrom(deps, gs, i) ==
    IF i > Len(gs) THEN deps
    ELSE RequiredFrom(AddDeps(deps, gs[i].packages, 1), gs, i + 1)

getRequiredPackages_none(gs) == <<>>

getRequiredPackages(gs) == RequiredFrom(<<>>, gs, 1)

KeysOf(entries) == {entries[i].key : i \in 1..Len(entries)}

\* if (!(key in scripts)) scripts[key] = value   (and the same for config)
MergeEntry_lastWins(acc, e) ==
    IF e.key \in KeysOf(acc)
    THEN [i \in 1..Len(acc) |-> IF acc[i].key = e.key THEN e ELSE acc[i]]
    ELSE Append(acc, e)

MergeEntry(acc, e) ==
    IF e.key \in KeysOf(acc) THEN acc ELSE Append(acc, e)

RECURSIVE MergeEntries(_, _, _)
MergeEntries(acc, entries, i) ==
    IF i > Len(entries) THEN acc
    ELSE MergeEntries(MergeEntry(acc, entries[i]), entries, i + 1)

\* getPackageJsonMods: the loop over the groups, from group i on
RECURSIVE ModsFrom(_, _, _, _)
ModsFrom(acc, gs, c, i) ==
    IF i > Len(gs) THEN acc
    ELSE IF gs[i].packageJson = "none" THEN ModsFrom(acc, gs, c, i + 1)
    ELSE LET m == EvalPackageJson(gs[i], c)
         IN ModsFrom([scripts |-> MergeEntries(acc.scripts, m.scripts, 1),
                      config |-> MergeEntries(acc.config, m.config, 1)],
                     gs, c, i + 1)

getPackageJsonMods(gs, c) == ModsFrom(NoMods, gs, c, 1)

\* groups.filter(g => selectedLabels.includes(g.label))
FilterSelected(gs, labels) ==
    LET Chosen(g) == g.label \in Range(labels) IN SelectSeq(gs, Chosen)

(***************************************************************************)
(* The working directory                                                   *)
(*                                                                         *)
(* cwd maps each path the run probes, reads or writes (package.json apart,  *)
(* which is `disk`) to a content token; "absent" is a path that does not   *)
(* exist. A next.config content is shape/output: the shape is what the     *)
(* three patterns of ensureStandaloneOutput look for, the output what its  *)
(* two `includes` tests look for.                                          *)
(***************************************************************************)
\* detect-pm.ts LOCK_FILES, in Object.entries order
LOCK_FILES == <<
    [file |-> "bun.lock", pm |-> "bun"],
    [file |-> "bun.lockb", pm |-> "bun"],
    [file |-> "pnpm-lock.yaml", pm |-> "pnpm"],
    [file |-> "yarn.lock", pm |-> "yarn"],
    [file |-> "package-lock.json", pm |-> "npm"] >>

\* detect-framework.ts NEXTJS_CONFIG_FILES
NEXTJS_CONFIG_FILES ==
    <<"next.config.ts", "next.config.js", "next.config.cjs", "next.config.mjs">>

BiomeFiles == {"biome.json", "biome.jsonc"}

\* every target path a context can resolve a registry file to
TargetPaths ==
    UNION {UNION {{TEMPLATE_GROUPS[g].files[i].targetPath,
                   TEMPLATE_GROUPS[g].files[i].targetPathWithSrc} :
                        i \in 1..Len(TEMPLATE_GROUPS[g].files)} :
           g \in 1..Len(TEMPLATE_GROUPS)}

Paths ==
    {LOCK_FILES[i].file : i \in 1..Len(LOCK_FILES)}
    \cup Range(NEXTJS_CONFIG_FILES) \cup BiomeFiles \cup {"src"}
    \cup TargetPaths

existsSync(f, path) == f[path] # "absent"

NextShapes == {"typed", "moduleExports", "exportDefault", "wrapped"}
NextOutputs == {"none", "standalone", "other"}
NextContent(shape, output) == shape \o "/" \o output

ShapeOf(content) ==
    CHOOSE sh \in NextShapes :
        \E o \in NextOutputs : content = NextContent(sh, o)
OutputOf(content) ==
    CHOOSE o \in NextOutputs :
        \E sh \in NextShapes : content = NextContent(sh, o)

\* next-config.ts STANDALONE_CONFIG
STANDALONE_CONFIG == NextContent("typed", "standalone")

\* detect-pm.ts detectPackageManager: the first lock file present decides
RECURSIVE PmFrom_lastWins(_, _)
PmFrom_lastWins(f, i) ==
    IF i > Len(LOCK_FILES) THEN [pm |-> "npm", inferred |-> TRUE]
    ELSE LET j == Len(LOCK_FILES) + 1 - i
         IN IF existsSync(f, LOCK_FILES[j].file)
            THEN [pm |-> LOCK_FILES[j].pm, inferred |-> FALSE]
            ELSE PmFrom_lastWins(f, i + 1)

RECURSIVE PmFrom(_, _)
PmFrom(f, i) ==
    IF i > Len(LOCK_FILES) THEN [pm |-> "npm", inferred |-> TRUE]
    ELSE IF existsSync(f, LOCK_FILES[i].file)
    THEN [pm |-> LOCK_FILES[i].pm, inferred |-> FALSE]
    ELSE PmFrom(f, i + 1)

\* PMDetectionResult: {pm, inferred}
detectPackageManager(f) == PmFrom(f, 1)

\* detect-pm.ts getPMConfig: the lock file probe for bun
bunLockfile_fixed(f) == "bun.lock"

bunLockfile(f) == IF existsSync(f, "bun.lockb") THEN "bun.lockb" ELSE "bun.lock"

\* detect-pm.ts getPMConfig(pm, {cwd}): the members the generators read
\* that differ by more than the package manager's name
getPMConfig(pm, f) ==
    CASE pm = "bun" ->
            [pm |-> pm, run |-> "bun run", runX |-> "bun run",
             lockfile |-> bunLockfile(f)]
      [] pm = "pnpm" ->
            [pm |-> pm, run |-> "pnpm", runX |-> "pnpm exec",
             lockfile |-> "pnpm-lock.yaml"]
      [] pm = "yarn" ->
            [pm |-> pm, run |-> "yarn", runX |-> "yarn run",
             lockfile |-> "yarn.lock"]
      [] pm = "npm" ->
            [pm |-> pm, run |-> "npm run", runX |-> "npx",
             lockfile |-> "package-lock.json"]

\* detect-framework.ts getNextConfigPath: first config file present, or "null"
RECURSIVE NextConfigFrom(_, _)
NextConfigFrom(f, i) ==
    IF i > Len(NEXTJS_CONFIG_FILES) THEN "null"
    ELSE IF existsSync(f, NEXTJS_CONFIG_FILES[i]) THEN NEXTJS_CONFIG_FILES[i]
    ELSE NextConfigFrom(f, i + 1)

getNextConfigPath(f) == NextConfigFrom(f, 1)

\* detect-framework.ts detectFramework; a package.json that does not parse
\* is caught and counts as one without dependencies
detectFramework(f, d) ==
    IF \E i \in 1..Len(NEXTJS_CONFIG_FILES) :
            existsSync(f, NEXTJS_CONFIG_FILES[i])
    THEN "nextjs"
    ELSE IF d.exists /\ d.valid /\ "next" \in d.pkg.deps THEN "nextjs"
    ELSE "vite-tanstack-router"

\* detect-framework.ts 19-28: package.json is read when no next.config
\* file decided the framework
FrameworkReads(f, d) ==
    IF \E i \in 1..Len(NEXTJS_CONFIG_FILES) :
            existsSync(f, NEXTJS_CONFIG_FILES[i])
    THEN 0
    ELSE IF d.exists THEN 1 ELSE 0

\* detect-tooling.ts 16-26: package.json is read when no biome file decided
\* the tooling
ToolingReads(f, d) ==
    IF existsSync(f, "biome.json") \/ existsSync(f, "biome.jsonc")
    THEN 0
    ELSE IF d.exists THEN 1 ELSE 0

\* detect-tooling.ts detectTooling; the same catch as detectFramework
detectTooling(f, d) ==
    IF existsSync(f, "biome.json") \/ existsSync(f, "biome.jsonc")
    THEN "biome"
    ELSE IF d.exists /\ d.valid /\ "@biomejs/biome" \in d.pkg.deps
    THEN "biome"
    ELSE "eslint-prettier"

\* index.ts 38-70: the context main builds; srcDir is what the targetPath
\* functions of templates.ts read off cwd
ContextOf(f, d) ==
    [pm |-> detectPackageManager(f).pm,
     tooling |-> detectTooling(f, d),
     framework |-> detectFramework(f, d),
     srcDir |-> existsSync(f, "src")]

\* next-config.ts ensureStandaloneOutput: the directory after it and its status
ensureStandaloneOutput_guess(f) ==
    LET existingPath == getNextConfigPath(f)
    IN IF existingPath = "null"
       THEN [fs |-> [f EXCEPT !["next.config.ts"] = STANDALONE_CONFIG],
             status |-> "created"]
       ELSE IF OutputOf(f[existingPath]) = "standalone"
       THEN [fs |-> f, status |-> "already-configured"]
       ELSE [fs |-> [f EXCEPT ![existingPath] =
                        NextContent(ShapeOf(f[existingPath]), "standalone")],
             status |-> IF OutputOf(f[existingPath]) = "none"
                           /\ ShapeOf(f[existingPath]) # "wrapped"
                        THEN "updated" ELSE "manual-required"]

ensureStandaloneOutput_noInsert(f) ==
    LET existingPath == getNextConfigPath(f)
    IN IF existingPath = "null"
       THEN [fs |-> [f EXCEPT !["next.config.ts"] = STANDALONE_CONFIG],
             status |-> "created"]
       ELSE LET content == f[existingPath]
            IN IF OutputOf(content) = "standalone"
               THEN [fs |-> f, status |-> "already-configured"]
               ELSE IF OutputOf(content) = "other"
               THEN [fs |-> f, status |-> "manual-required"]
               ELSE IF ShapeOf(content) \in
                          {"typed", "moduleExports", "exportDefault"}
               THEN [fs |-> f, status |-> "updated"]
               ELSE [fs |-> f, status |-> "manual-required"]

ensureStandaloneOutput(f) ==
    LET existingPath == getNextConfigPath(f)
    IN IF existingPath = "null"
       THEN [fs |-> [f EXCEPT !["next.config.ts"] = STANDALONE_CONFIG],
             status |-> "created"]
       ELSE LET content == f[existingPath]
            IN IF OutputOf(content) = "standalone"
               THEN [fs |-> f, status |-> "already-configured"]
               ELSE IF OutputOf(content) = "other"
               THEN [fs |-> f, status |-> "manual-required"]
               ELSE IF ShapeOf(content) \in
                          {"typed", "moduleExports", "exportDefault"}
               THEN [fs |-> [f EXCEPT ![existingPath] =
                                NextContent(ShapeOf(content), "standalone")],
                     status |-> "updated"]
               ELSE [fs |-> f, status |-> "manual-required"]

\* files.ts checkExistingFiles, kept to the paths found present
RECURSIVE ExistingAmong(_, _, _)
ExistingAmong(f, files, i) ==
    IF i > Len(files) THEN <<>>
    ELSE (IF existsSync(f, files[i].targetPath)
          THEN <<files[i].targetPath>> ELSE <<>>)
         \o ExistingAmong(f, files, i + 1)

\* selected.flatMap(g => g.files)
RECURSIVE FlatFiles(_, _)
FlatFiles(gs, i) ==
    IF i > Len(gs) THEN <<>> ELSE gs[i].files \o FlatFiles(gs, i + 1)

\* existingFiles.filter(f => !filesToOverwrite.includes(f.targetPath))
RECURSIVE NotChosen(_, _, _)
NotChosen(existing, chosen, i) ==
    IF i > Len(existing) THEN <<>>
    ELSE (IF existing[i] \in chosen THEN <<>> ELSE <<existing[i]>>)
         \o NotChosen(existing, chosen, i + 1)

\* allFiles.filter(f => !filesToSkip.includes(f.targetPath))
KeepFile_skipIgnored(file, skip) == TRUE

KeepFile(file, skip) == file.targetPath \notin Range(skip)

RECURSIVE FilesToApply(_, _, _)
FilesToApply(allFiles, skip, i) ==
    IF i > Len(allFiles) THEN <<>>
    ELSE (IF KeepFile(allFiles[i], skip) THEN <<allFiles[i]>> ELSE <<>>)
         \o FilesToApply(allFiles, skip, i + 1)

\* the string copyFile writes: file.content.generate(ctx), or the template
ContentOf(file, c) ==
    IF file.content = "dynamic"
    THEN "generated:" \o c.pm \o ":" \o c.framework \o ":" \o c.tooling
    ELSE "template"

\* files.ts copyFile
copyFile(f, file, c) == [f EXCEPT ![file.targetPath] = ContentOf(file, c)]

\* index.ts 187-189: the loop over filesToApply, from file i on
RECURSIVE CopyFrom(_, _, _, _)
CopyFrom(f, files, c, i) ==
    IF i > Len(files) THEN f
    ELSE CopyFrom(copyFile(f, files[i], c), files, c, i + 1)

(***************************************************************************)
(* SpecPatch: updatePackageJson on bounded manifests and mods              *)
(***************************************************************************)
PatchDisks ==
    {d \in [exists : {TRUE}, valid : {TRUE}, pkg : PackageJson,
             canonical : BOOLEAN] :
        WellFormedPkg(d.pkg)}

DefaultCtx ==
    [pm |-> "npm", tooling |-> "eslint-prettier",
     framework |-> "vite-tanstack-router", srcDir |-> FALSE]

EmptyDisk ==
    [exists |-> TRUE,
     valid |-> TRUE,
     pkg |-> [hasScripts |-> FALSE, scripts |-> EmptyMap, top |-> EmptyMap,
              deps |-> {}],
     canonical |-> TRUE]

\* the variables a specification does not use stay at these values
PatchIdle ==
    /\ disk = EmptyDisk
    /\ mods = NoMods
    /\ added = <<>>
    /\ calls = 0
    /\ before = EmptyDisk
    /\ wrote = FALSE
    /\ pkgWrites = 0
    /\ pkgReads = 0

AggIdle ==
    /\ templateGroups = TEMPLATE_GROUPS
    /\ ctx = DefaultCtx
    /\ groups = <<>>
    /\ selectedLabels = <<>>
    /\ selected = <<>>
    /\ requiredDeps = <<>>
    /\ groupsArg = <<>>
    /\ modsOfArg = NoMods
    /\ aggStep = "start"

EmptyFs == [path \in Paths |-> "absent"]

MainIdle ==
    /\ pc = "idle"
    /\ exitCode = 0
    /\ cwd = EmptyFs
    /\ atStart = [cwd |-> EmptyFs, disk |-> EmptyDisk]
    /\ existingFiles = <<>>
    /\ filesToOverwrite = {}
    /\ filesToSkip = <<>>
    /\ filesToApply = <<>>
    /\ shouldContinue = "unanswered"
    /\ nextResult = "none"
    /\ fileWrites = <<>>
    /\ installs = <<>>

NoDetection == [pm |-> "none", inferred |-> FALSE]

NoPMConfig == [pm |-> "none", run |-> "none", runX |-> "none", lockfile |-> "none"]

DetectIdle ==
    /\ pmResult = NoDetection
    /\ pmConfig = NoPMConfig

InitPatch ==
    /\ disk \in PatchDisks
    /\ mods \in ResolvedPackageJsonMods
    /\ added = <<>>
    /\ calls = 0
    /\ before = disk
    /\ wrote = FALSE
    /\ pkgWrites = 0
    /\ pkgReads = 0
    /\ AggIdle
    /\ MainIdle
    /\ DetectIdle

\* one call of updatePackageJson({cwd, mods})
CallUpdatePackageJson ==
    /\ UNCHANGED detectVars
    /\ calls < MaxCalls
    /\ LET r == updatePackageJson(disk, mods)
       IN /\ disk' = r.disk
          /\ added' = r.added
          /\ wrote' = r.wrote
          /\ pkgWrites' = pkgWrites + (IF r.wrote THEN 1 ELSE 0)
    /\ pkgReads' = pkgReads + (IF disk.exists THEN 1 ELSE 0)
    /\ before' = disk
    /\ calls' = calls + 1
    /\ UNCHANGED <<mods, aggVars, mainVars>>

NextPatch == CallUpdatePackageJson

SpecPatch == InitPatch /\ [][NextPatch]_vars

(***************************************************************************)
(* SpecAgg: the aggregators on a bounded registry of groups                *)
(*                                                                         *)
(* The registry holds up to MaxGroups groups, each with a package list and *)
(* literal packageJson mods drawn from small sets; selectedLabels is any   *)
(* selection in any order. AggregateSelected is what main does with it;    *)
(* CallGetPackageJsonMods is a caller that passes the groups in the order  *)
(* of its selection.                                                       *)
(***************************************************************************)
AggLabels == <<"Group A", "Group B", "Group C", "Group D">>
AggPaths == <<"a.conf", "b.conf", "c.conf", "d.conf">>

AggPackageLists ==
    {<<>>, <<"husky">>, <<"lint-staged">>, <<"husky", "lint-staged">>}

AggScriptEntries ==
    {<<>>} \cup {<< [key |-> "check", value |-> v] >> : v \in {"v1", "v2"}}

AggConfigEntries ==
    {<<>>} \cup {<< [key |-> "lint-staged", value |-> v] >> : v \in {"c1", "c2"}}

\* at most one proposed entry per group
AggLiterals ==
    {m \in [scripts : AggScriptEntries, config : AggConfigEntries] :
        Len(m.scripts) + Len(m.config) <= 1}

AggVariants ==
    [packages : AggPackageLists, packageJson : {"none"}, literal : {NoMods}]
    \cup [packages : AggPackageLists, packageJson : {"literal"},
          literal : AggLiterals]

AggGroup(i, v) ==
    [label |-> AggLabels[i],
     hint |-> AggPaths[i],
     files |-> << [targetPath |-> AggPaths[i], content |-> "static"] >>,
     packages |-> v.packages,
     packageJson |-> v.packageJson,
     literal |-> v.literal]

AggRegistries ==
    UNION {{[i \in 1..n |-> AggGroup(i, f[i])] : f \in [1..n -> AggVariants]} :
            n \in 1..MaxGroups}

\* the selections of a registry: distinct labels in any order
Selections(gs) ==
    {sel \in SeqsUpTo({gs[i].label : i \in 1..Len(gs)}, Len(gs)) :
        \A i, j \in 1..Len(sel) : sel[i] = sel[j] => i = j}

GroupLabelled(gs, label) == gs[CHOOSE i \in 1..Len(gs) : gs[i].label = label]

InitAgg ==
    /\ PatchIdle
    /\ MainIdle
    /\ DetectIdle
    /\ templateGroups = TEMPLATE_GROUPS
    /\ ctx = DefaultCtx
    /\ groups \in AggRegistries
    /\ selectedLabels \in Selections(groups)
    /\ selected = <<>>
    /\ requiredDeps = <<>>
    /\ groupsArg = <<>>
    /\ modsOfArg = NoMods
    /\ aggStep = "start"

\* index.ts 95, 137, 193: main filters the groups and aggregates them
AggregateSelected ==
    /\ UNCHANGED detectVars
    /\ aggStep = "start"
    /\ selected' = FilterSelected(groups, selectedLabels)
    /\ requiredDeps' = getRequiredPackages(selected')
    /\ mods' = getPackageJsonMods(selected', ctx)
    /\ aggStep' = "selected"
    /\ UNCHANGED <<disk, added, calls, before, wrote, pkgWrites, pkgReads>>
    /\ UNCHANGED <<templateGroups, ctx, groups, selectedLabels, groupsArg,
                   modsOfArg>>
    /\ UNCHANGED mainVars

\* getPackageJsonMods called with the groups in the caller's own order
CallGetPackageJsonMods ==
    /\ UNCHANGED detectVars
    /\ aggStep = "selected"
    /\ groupsArg' = [i \in 1..Len(selectedLabels) |->
                        GroupLabelled(groups, selectedLabels[i])]
    /\ modsOfArg' = getPackageJsonMods(groupsArg', ctx)
    /\ aggStep' = "direct"
    /\ UNCHANGED <<patchVars, mainVars>>
    /\ UNCHANGED <<templateGroups, ctx, groups, selectedLabels, selected,
                   requiredDeps>>

NextAgg == AggregateSelected \/ CallGetPackageJsonMods

SpecAgg == InitAgg /\ [][NextAgg]_vars

(***************************************************************************)
(* SpecResolve: resolveGroups on every context                             *)
(*                                                                         *)
(* templateGroups is the registry as templates.ts declares it, or a        *)
(* registry of up to MaxRegistry groups of one or two conditional files,   *)
(* each group with a package and a script of its own. CallResolveGroups    *)
(* resolves it for the context; AggregateSelected then aggregates the      *)
(* prompt's initial values, which are all the resolved groups.             *)
(***************************************************************************)
Whens == {"always", "notNextjs", "biome"}

WhenLists ==
    {<<w>> : w \in Whens} \cup {<<w1, w2>> : w1 \in Whens, w2 \in Whens}

ResolvePaths ==
    << <<"a1.conf", "a2.conf">>, <<"b1.conf", "b2.conf">>,
       <<"c1.conf", "c2.conf">>, <<"d1.conf", "d2.conf">> >>
ResolvePackages == <<"pkg-a", "pkg-b", "pkg-c", "pkg-d">>
ResolveScriptKeys == <<"script-a", "script-b", "script-c", "script-d">>

\* the i-th group of a registry: one file per entry of whens
ResolveGroupDef(i, whens) ==
    [label |-> AggLabels[i],
     files |-> [j \in 1..Len(whens) |->
                    [FileDef(ResolvePaths[i][j], "static") EXCEPT
                        !.when = whens[j]]],
     hasPackages |-> TRUE,
     packages |-> <<ResolvePackages[i]>>,
     packageJson |-> "literal",
     literal |-> [scripts |-> << [key |-> ResolveScriptKeys[i],
                                  value |-> "run"] >>,
                  config |-> <<>>]]

ResolveRegistries ==
    {TEMPLATE_GROUPS}
    \cup UNION {{[i \in 1..n |-> ResolveGroupDef(i, f[i])] :
                    f \in [1..n -> WhenLists]} : n \in 1..MaxRegistry}

InitResolve ==
    /\ PatchIdle
    /\ MainIdle
    /\ DetectIdle
    /\ templateGroups \in ResolveRegistries
    /\ ctx \in GeneratorContext
    /\ groups = <<>>
    /\ selectedLabels = <<>>
    /\ selected = <<>>
    /\ requiredDeps = <<>>
    /\ groupsArg = <<>>
    /\ modsOfArg = NoMods
    /\ aggStep = "registry"

\* index.ts 71-80: resolveGroups(ctx), and the initialValues of the prompt
CallResolveGroups ==
    /\ UNCHANGED detectVars
    /\ aggStep = "registry"
    /\ groups' = ResolveFrom(templateGroups, ctx, 1)
    /\ selectedLabels' = [k \in 1..Len(groups') |-> groups'[k].label]
    /\ aggStep' = "start"
    /\ UNCHANGED <<patchVars, mainVars>>
    /\ UNCHANGED <<templateGroups, ctx, selected, requiredDeps, groupsArg,
                   modsOfArg>>

NextResolve == CallResolveGroups \/ AggregateSelected

SpecResolve == InitResolve /\ [][NextResolve]_vars

(***************************************************************************)
(* Spec: one run of main() (index.ts) in a bounded working directory       *)
(*                                                                         *)
(* The directory starts with some lock files, next.config files, biome     *)
(* files, perhaps a `src` directory, up to MaxExisting target paths that   *)
(* already hold a file of the user's, and a package.json (or none). The    *)
(* prompts answer anything they can answer. The installer is a child       *)
(* process: the model records the command and whether it succeeded.        *)
(***************************************************************************)
MainLockSets == {{}, {"yarn.lock", "package-lock.json"}}

MainNextProfiles ==
    {EmptyMap,
     "next.config.ts" :> NextContent("typed", "none"),
     "next.config.ts" :> NextContent("typed", "standalone"),
     ("next.config.js" :> NextContent("moduleExports", "none"))
        @@ ("next.config.mjs" :> NextContent("exportDefault", "standalone")),
     "next.config.mjs" :> NextContent("exportDefault", "other"),
     "next.config.cjs" :> NextContent("wrapped", "none")}

MainBiomeSets == {{}, {"biome.jsonc"}}

MainDepSets == {{}, {"next", "@biomejs/biome"}}

\* the manifests a run starts from: a bare one, one that already has a
\* prepare script and a lint-staged member, and one that holds the proposed
\* keys with empty values
MainManifests ==
    {[hasScripts |-> FALSE, scripts |-> EmptyMap, top |-> EmptyMap,
      deps |-> deps] : deps \in MainDepSets}
    \cup {[hasScripts |-> TRUE, scripts |-> [k \in {"prepare"} |-> "custom"],
           top |-> [k \in {"lint-staged"} |-> "custom"],
           deps |-> {}],
          [hasScripts |-> TRUE,
           scripts |-> [k \in {"check", "prepare"} |-> ""],
           top |-> [k \in {"lint-staged"} |-> "null"],
           deps |-> {}]}

\* the target paths a function of templates.ts puts under src/
PathsUnderSrc ==
    UNION {{TEMPLATE_GROUPS[g].files[i].targetPathWithSrc :
                i \in {j \in 1..Len(TEMPLATE_GROUPS[g].files) :
                            TEMPLATE_GROUPS[g].files[j].pathIsFn}} :
           g \in 1..Len(TEMPLATE_GROUPS)}

\* a package.json whose text is not JSON, and no package.json at all
MalformedDisk == [EmptyDisk EXCEPT !.valid = FALSE, !.canonical = FALSE]
MissingDisk == [EmptyDisk EXCEPT !.exists = FALSE]

ExistingTargetSets ==
    {S \in SUBSET TargetPaths : Cardinality(S) <= MaxExisting}

InitialFs(lock, next, biome, src, targets) ==
    [path \in Paths |->
        IF path \in lock \cup biome THEN "present"
        ELSE IF path \in DOMAIN next THEN next[path]
        ELSE IF path = "src" THEN (IF src THEN "directory" ELSE "absent")
        ELSE IF path \in targets THEN "user"
        ELSE "absent"]

MainDirectories ==
    {InitialFs(lock, next, biome, src, targets) :
        lock \in MainLockSets, next \in MainNextProfiles,
        biome \in MainBiomeSets, src \in BOOLEAN,
        targets \in ExistingTargetSets}

Init ==
    /\ cwd \in {f \in MainDirectories :
                (\E path \in PathsUnderSrc : existsSync(f, path))
                    => existsSync(f, "src")}
    /\ \/ disk \in [exists : {TRUE}, valid : {TRUE}, pkg : MainManifests,
                     canonical : {FALSE}]
       \/ disk = MalformedDisk
       \/ disk = MissingDisk
    /\ atStart = [cwd |-> cwd, disk |-> disk]
    /\ pc = "start"
    /\ exitCode = 0
    /\ mods = NoMods
    /\ added = <<>>
    /\ calls = 0
    /\ before = disk
    /\ wrote = FALSE
    /\ pkgWrites = 0
    /\ pkgReads = 0
    /\ AggIdle
    /\ DetectIdle
    /\ existingFiles = <<>>
    /\ filesToOverwrite = {}
    /\ filesToSkip = <<>>
    /\ filesToApply = <<>>
    /\ shouldContinue = "unanswered"
    /\ nextResult = "none"
    /\ fileWrites = <<>>
    /\ installs = <<>>

\* process.exit(code); pc keeps which exit it was
Exit(code, which) ==
    /\ pc' = which
    /\ exitCode' = code

\* existsSync(join(cwd, "package.json"))
HasPackageJson_always(d) == TRUE

HasPackageJson(d) == d.exists

\* index.ts 31-71: the package.json test, detection and resolveGroups
Start ==
    /\ pc = "start"
    /\ IF ~HasPackageJson(disk)
       THEN /\ Exit(1, "noPackageJson")
            /\ UNCHANGED <<ctx, groups, pkgReads, pmResult>>
       ELSE /\ pmResult' = detectPackageManager(cwd)
            /\ ctx' = ContextOf(cwd, disk)
            /\ groups' = resolveGroups(ctx')
            /\ pkgReads' = pkgReads + FrameworkReads(cwd, disk)
                                    + ToolingReads(cwd, disk)
            /\ pc' = "selectExtras"
            /\ UNCHANGED exitCode
    /\ UNCHANGED <<disk, mods, added, calls, before, wrote, pkgWrites>>
    /\ UNCHANGED <<templateGroups, selectedLabels, selected, requiredDeps,
                   groupsArg, modsOfArg, aggStep, pmConfig>>
    /\ UNCHANGED <<cwd, atStart, existingFiles, filesToOverwrite, filesToSkip,
                   filesToApply, shouldContinue, nextResult, fileWrites,
                   installs>>

\* the labels of the groups at the positions in S, in the order of the options
RECURSIVE LabelsAt(_, _, _)
LabelsAt(gs, S, i) ==
    IF i > Len(gs) THEN <<>>
    ELSE (IF i \in S THEN <<gs[i].label>> ELSE <<>>) \o LabelsAt(gs, S, i + 1)

\* index.ts 73-98 and, when nothing exists, 134-137: the multiselect answers
SelectExtras ==
    /\ UNCHANGED detectVars
    /\ pc = "selectExtras"
    /\ \E S \in SUBSET (1..Len(groups)) :
        /\ selectedLabels' = LabelsAt(groups, S, 1)
        /\ IF Len(selectedLabels') = 0
           THEN /\ Exit(0, "noExtras")
                /\ UNCHANGED <<selected, existingFiles, filesToApply,
                               requiredDeps>>
           ELSE /\ selected' = FilterSelected(groups, selectedLabels')
                /\ existingFiles' =
                        ExistingAmong(cwd, FlatFiles(selected', 1), 1)
                /\ UNCHANGED exitCode
                /\ IF Len(existingFiles') > 0
                   THEN /\ pc' = "overwritePrompt"
                        /\ UNCHANGED <<filesToApply, requiredDeps>>
                   ELSE /\ filesToApply' =
                                FilesToApply(FlatFiles(selected', 1), <<>>, 1)
                        /\ requiredDeps' = getRequiredPackages(selected')
                        /\ pc' = "confirm"
    /\ UNCHANGED <<patchVars, templateGroups, ctx, groups, groupsArg, modsOfArg,
                   aggStep>>
    /\ UNCHANGED <<cwd, atStart, filesToOverwrite, filesToSkip,
                   shouldContinue, nextResult, fileWrites, installs>>

\* index.ts 113-137: the overwrite multiselect answers
ChooseOverwrite ==
    /\ UNCHANGED detectVars
    /\ pc = "overwritePrompt"
    /\ filesToOverwrite' \in SUBSET Range(existingFiles)
    /\ filesToSkip' = NotChosen(existingFiles, filesToOverwrite', 1)
    /\ filesToApply' = FilesToApply(FlatFiles(selected, 1), filesToSkip', 1)
    /\ requiredDeps' = getRequiredPackages(selected)
    /\ pc' = "confirm"
    /\ UNCHANGED <<patchVars, templateGroups, ctx, groups, selectedLabels,
                   selected, groupsArg, modsOfArg, aggStep>>
    /\ UNCHANGED <<exitCode, cwd, atStart, existingFiles, shouldContinue,
                   nextResult, fileWrites, installs>>

\* index.ts 84-87, 123-126: p.isCancel(answer) at a multiselect
Cancel ==
    /\ UNCHANGED detectVars
    /\ pc \in {"selectExtras", "overwritePrompt"}
    /\ Exit(0, "cancelled")
    /\ UNCHANGED <<patchVars, aggVars>>
    /\ UNCHANGED <<cwd, atStart, existingFiles, filesToOverwrite, filesToSkip,
                   filesToApply, shouldContinue, nextResult, fileWrites,
                   installs>>

\* !(p.isCancel(shouldContinue) || !shouldContinue)
Proceeds_always(answer) == TRUE

Proceeds(answer) == answer = "true"

\* index.ts 146-153: the confirm prompt returns true, false or the cancel
\* symbol
Confirm ==
    /\ UNCHANGED detectVars
    /\ pc = "confirm"
    /\ shouldContinue' \in {"true", "false", "cancel"}
    /\ IF Proceeds(shouldContinue')
       THEN /\ pc' = IF ctx.framework = "nextjs" THEN "nextConfig" ELSE "copy"
            /\ UNCHANGED exitCode
       ELSE Exit(0, IF shouldContinue' = "cancel" THEN "cancelled"
                    ELSE "declined")
    /\ UNCHANGED <<patchVars, aggVars>>
    /\ UNCHANGED <<cwd, atStart, existingFiles, filesToOverwrite, filesToSkip,
                   filesToApply, nextResult, fileWrites, installs>>

\* index.ts 159-183: ensureStandaloneOutput(cwd) in a Next.js project
ConfigureNext ==
    /\ UNCHANGED detectVars
    /\ pc = "nextConfig"
    /\ LET result == ensureStandaloneOutput(cwd)
       IN /\ cwd' = result.fs
          /\ nextResult' = result.status
    /\ pc' = "copy"
    /\ UNCHANGED <<patchVars, aggVars>>
    /\ UNCHANGED <<exitCode, atStart, existingFiles, filesToOverwrite,
                   filesToSkip, filesToApply, shouldContinue, fileWrites,
                   installs>>

\* index.ts 185-191: copyFile for every file of filesToApply. copyFile can
\* throw (mkdirSync, generate, readFileSync of the template, writeFileSync):
\* failAt is the position of the file it throws on, 0 when it never does.
\* Nothing in the loop catches, so the throw ends the loop and reaches
\* main().catch (237-240): exit code 1
CopyFiles ==
    /\ UNCHANGED detectVars
    /\ pc = "copy"
    /\ \E failAt \in 0..MaxFailAt :
        /\ failAt <= Len(filesToApply)
        /\ LET copied == IF failAt = 0 THEN filesToApply
                         ELSE SubSeq(filesToApply, 1, failAt - 1)
           IN /\ cwd' = CopyFrom(cwd, copied, ctx, 1)
              /\ fileWrites' = [i \in 1..Len(copied) |-> copied[i].targetPath]
        /\ IF failAt = 0
           THEN /\ pc' = "patch"
                /\ UNCHANGED exitCode
           ELSE Exit(1, "copyFailed")
    /\ UNCHANGED <<patchVars, aggVars>>
    /\ UNCHANGED <<atStart, existingFiles, filesToOverwrite,
                   filesToSkip, filesToApply, shouldContinue, nextResult,
                   installs>>

\* index.ts 204: if (requiredDeps.length > 0)
InstallerNeeded_always(deps) == TRUE

InstallerNeeded(deps) == Len(deps) > 0

\* index.ts 193-202: getPackageJsonMods(selected, ctx), updatePackageJson;
\* what readPackageJson throws reaches main().catch (237-240): exit code 1
PatchManifest ==
    /\ UNCHANGED detectVars
    /\ pc = "patch"
    /\ mods' = getPackageJsonMods(selected, ctx)
    /\ IF ReadThrows(disk)
       THEN /\ Exit(1, "manifestUnreadable")
            /\ pkgReads' = pkgReads + (IF disk.exists THEN 1 ELSE 0)
            /\ UNCHANGED <<disk, added, wrote, pkgWrites, before, calls>>
       ELSE /\ LET r == updatePackageJson(disk, mods')
               IN /\ disk' = r.disk
                  /\ added' = r.added
                  /\ wrote' = r.wrote
                  /\ pkgWrites' = pkgWrites + (IF r.wrote THEN 1 ELSE 0)
            /\ pkgReads' = pkgReads + 1
            /\ before' = disk
            /\ calls' = calls + 1
            /\ pc' = IF InstallerNeeded(requiredDeps) THEN "install" ELSE "done"
            /\ UNCHANGED exitCode
    /\ UNCHANGED aggVars
    /\ UNCHANGED <<cwd, atStart, existingFiles, filesToOverwrite,
                   filesToSkip, filesToApply, shouldContinue, nextResult,
                   fileWrites, installs>>

\* packages.join(" ")
RECURSIVE JoinPackages(_, _)
JoinPackages(packages, i) ==
    IF i > Len(packages) THEN ""
    ELSE IF i = Len(packages) THEN packages[i]
    ELSE packages[i] \o " " \o JoinPackages(packages, i + 1)

\* detect-pm.ts getInstallCommand
getInstallCommand(pm, packages) ==
    CASE pm = "bun" -> "bun add -D " \o JoinPackages(packages, 1)
      [] pm = "pnpm" -> "pnpm add -D " \o JoinPackages(packages, 1)
      [] pm = "yarn" -> "yarn add -D " \o JoinPackages(packages, 1)
      [] pm = "npm" -> "npm install -D " \o JoinPackages(packages, 1)

\* p.log.warn(`Run manually: ${installCmd}`)
ManualHint(installCmd) == "Run manually: " \o installCmd

\* index.ts 208-214: try { await execAsync(...) } catch { ... } lets nothing
\* the installer throws leave the block
InstallErrorCaught_rethrown(ok) == ok

InstallErrorCaught(ok) == TRUE

\* index.ts 204-215: the install command runs and succeeds or fails
Install ==
    /\ UNCHANGED detectVars
    /\ pc = "install"
    /\ \E ok \in BOOLEAN :
        LET installCmd == getInstallCommand(ctx.pm, requiredDeps)
        IN /\ installs' = Append(installs,
                                [cmd |-> installCmd,
                                 ok |-> ok,
                                 warned |-> IF ok THEN ""
                                            ELSE ManualHint(installCmd)])
           /\ IF InstallErrorCaught(ok)
              THEN /\ pc' = "done"
                   /\ UNCHANGED exitCode
              ELSE Exit(1, "installFailed")
    /\ UNCHANGED <<patchVars, aggVars>>
    /\ UNCHANGED <<cwd, atStart, existingFiles, filesToOverwrite,
                   filesToSkip, filesToApply, shouldContinue, nextResult,
                   fileWrites>>

Next ==
    \/ Start
    \/ SelectExtras
    \/ ChooseOverwrite
    \/ Cancel
    \/ Confirm
    \/ ConfigureNext
    \/ CopyFiles
    \/ PatchManifest
    \/ Install

Spec == Init /\ [][Next]_vars

(***************************************************************************)
(* SpecDetect: detectPackageManager and getPMConfig applied to a directory  *)
(* holding any set of the five lock files                                  *)
(***************************************************************************)
LockFileSets == SUBSET {LOCK_FILES[i].file : i \in 1..Len(LOCK_FILES)}

DetectDirectories ==
    {InitialFs(lock, EmptyMap, {}, FALSE, {}) : lock \in LockFileSets}

InitDetect ==
    /\ cwd \in DetectDirectories
    /\ atStart = [cwd |-> cwd, disk |-> EmptyDisk]
    /\ pc = "idle"
    /\ exitCode = 0
    /\ existingFiles = <<>>
    /\ filesToOverwrite = {}
    /\ filesToSkip = <<>>
    /\ filesToApply = <<>>
    /\ shouldContinue = "unanswered"
    /\ nextResult = "none"
    /\ fileWrites = <<>>
    /\ installs = <<>>
    /\ PatchIdle
    /\ AggIdle
    /\ DetectIdle

\* one call of detectPackageManager(cwd)
CallDetectPackageManager ==
    /\ pmResult' = detectPackageManager(cwd)
    /\ UNCHANGED <<patchVars, aggVars, mainVars, pmConfig>>

\* one call of getPMConfig(pm, {cwd})
CallGetPMConfig ==
    /\ \E pm \in PackageManagers : pmConfig' = getPMConfig(pm, cwd)
    /\ UNCHANGED <<patchVars, aggVars, mainVars, pmResult>>

NextDetect == CallDetectPackageManager \/ CallGetPMConfig

SpecDetect == InitDetect /\ [][NextDetect]_vars

(***************************************************************************)
(* SpecNextConfig: ensureStandaloneOutput called up to MaxCalls times on a *)
(* directory holding any next.config files                                 *)
(***************************************************************************)
NextContents == {NextContent(sh, o) : sh \in NextShapes, o \in NextOutputs}

NextProfiles == [Range(NEXTJS_CONFIG_FILES) -> NextContents \cup {"absent"}]

NextDirectories ==
    {[path \in Paths |->
        IF path \in Range(NEXTJS_CONFIG_FILES) THEN profile[path]
        ELSE "absent"] : profile \in NextProfiles}

InitNextConfig ==
    /\ cwd \in NextDirectories
    /\ atStart = [cwd |-> cwd, disk |-> EmptyDisk]
    /\ pc = "idle"
    /\ exitCode = 0
    /\ existingFiles = <<>>
    /\ filesToOverwrite = {}
    /\ filesToSkip = <<>>
    /\ filesToApply = <<>>
    /\ shouldContinue = "unanswered"
    /\ nextResult = "none"
    /\ fileWrites = <<>>
    /\ installs = <<>>
    /\ PatchIdle
    /\ AggIdle
    /\ DetectIdle

\* one call of ensureStandaloneOutput(cwd)
CallEnsureStandaloneOutput ==
    /\ calls < MaxCalls
    /\ LET r == ensureStandaloneOutput(cwd)
       IN /\ cwd' = r.fs
          /\ nextResult' = r.status
    /\ calls' = calls + 1
    /\ UNCHANGED <<disk, mods, added, before, wrote, pkgWrites, pkgReads>>
    /\ UNCHANGED <<pc, exitCode, atStart, existingFiles, filesToOverwrite,
                   filesToSkip, filesToApply, shouldContinue, fileWrites,
                   installs>>
    /\ UNCHANGED <<aggVars, detectVars>>

NextNextConfig == CallEnsureStandaloneOutput

SpecNextConfig == InitNextConfig /\ [][NextNextConfig]_vars


(***************************************************************************)
(* Claims about updatePackageJson (SpecPatch)                              *)
(***************************************************************************)
ScriptPresent(pkg, key) == pkg.hasScripts /\ key \in DOMAIN pkg.scripts

ProposedScriptKeys == {mods.scripts[i].key : i \in 1..Len(mods.scripts)}
ProposedConfigKeys == {mods.config[i].key : i \in 1..Len(mods.config)}

\* C1: every script key present in the manifest before the call, whatever
\* its value, has the same value after the call, and "<key> script" is not
\* in the returned added list.
C1_ExistingScriptKept ==
    calls >= 1 =>
        \A k \in ScriptKeys :
            ScriptPresent(before.pkg, k) =>
                /\ ScriptPresent(disk.pkg, k)
                /\ disk.pkg.scripts[k] = before.pkg.scripts[k]
                /\ ScriptDescriptor(k) \notin Range(added)

\* C2: every top-level key present in the manifest before the call, with
\* any value (null, false, an empty object included), keeps its value and
\* "<key> config" is not in added; a key in added was absent before.
C2_ConfigOnlyWhenAbsent ==
    calls >= 1 =>
        /\ \A k \in DOMAIN before.pkg.top :
              /\ k \in DOMAIN disk.pkg.top
              /\ disk.pkg.top[k] = before.pkg.top[k]
              /\ ConfigDescriptor(k) \notin Range(added)
        /\ \A k \in ProposedConfigKeys :
              k \notin DOMAIN before.pkg.top =>
                  ConfigDescriptor(k) \in Range(added)

\* a call met a proposed key the manifest held with a falsy JSON value and
\* added another proposed key
C2_Witness ==
    /\ calls = 1
    /\ \E k \in ProposedConfigKeys :
          /\ k \in DOMAIN before.pkg.top
          /\ before.pkg.top[k] \in {"null", "false", "{}"}
    /\ \E k \in ProposedConfigKeys : ConfigDescriptor(k) \in Range(added)

\* C3: the second of two consecutive calls with the same mods returns an
\* empty added list and leaves the manifest as the first call left it.
C3_Idempotent ==
    calls >= 2 => added = <<>> /\ disk = before

\* C4: package.json is written by a call if and only if that call added at
\* least one key; a call that adds nothing leaves the file as it was (same
\* members, same layout, no scripts map created).
C4_WriteIffAdded ==
    calls >= 1 =>
        /\ wrote <=> Len(added) > 0
        /\ ~wrote => disk = before
        /\ disk.pkg # before.pkg => wrote

\* a call with non-empty mods added nothing to a manifest that is not in the
\* canonical layout
C4_Witness ==
    /\ calls = 1
    /\ Len(mods.scripts) + Len(mods.config) > 0
    /\ added = <<>>
    /\ ~before.canonical

\* the descriptors of the proposed keys, in declaration order, that the
\* manifest did not hold before the call and holds after it
InsertedScriptDescriptors ==
    LET Inserted(e) == /\ ~ScriptPresent(before.pkg, e.key)
                       /\ ScriptPresent(disk.pkg, e.key)
        ins == SelectSeq(mods.scripts, Inserted)
    IN [i \in 1..Len(ins) |-> ScriptDescriptor(ins[i].key)]

InsertedConfigDescriptors ==
    LET Inserted(e) == /\ e.key \notin DOMAIN before.pkg.top
                       /\ e.key \in DOMAIN disk.pkg.top
        ins == SelectSeq(mods.config, Inserted)
    IN [i \in 1..Len(ins) |-> ConfigDescriptor(ins[i].key)]

\* C5: added holds exactly one descriptor per key inserted by the call, the
\* script descriptors before the config descriptors, each in the
\* declaration order of the mods.
C5_AddedIsInsertedInOrder ==
    calls >= 1 =>
        added = InsertedScriptDescriptors \o InsertedConfigDescriptors

(***************************************************************************)
(* Claims about the aggregators (SpecAgg)                                  *)
(***************************************************************************)
\* what group g proposes for a section ("scripts" or "config")
Proposed(g, sec) ==
    IF g.packageJson = "none" THEN <<>> ELSE EvalPackageJson(g, ctx)[sec]

ValueOf(entries, key) ==
    entries[CHOOSE i \in 1..Len(entries) : entries[i].key = key].value

Sections == {"scripts", "config"}

ProposedKeys(gs, sec) ==
    UNION {KeysOf(Proposed(gs[i], sec)) : i \in 1..Len(gs)}

\* position in `groups` (registry order) of the group gs[i]
RegistryIndex(g) == CHOOSE n \in 1..Len(groups) : groups[n].label = g.label

Min(S) == CHOOSE n \in S : \A m \in S : n <= m

\* the result holds, for every proposed key, the value of the first group
\* of the array gs that proposes it
FirstInArrayWins(result, gs) ==
    \A sec \in Sections :
        /\ KeysOf(result[sec]) = ProposedKeys(gs, sec)
        /\ \A k \in ProposedKeys(gs, sec) :
              LET first == Min({i \in 1..Len(gs) :
                                  k \in KeysOf(Proposed(gs[i], sec))})
              IN ValueOf(result[sec], k) = ValueOf(Proposed(gs[first], sec), k)

\* the result holds, for every proposed key, the value of the group earliest
\* in the registry among the groups of gs that propose it
FirstRegisteredWins(result, gs) ==
    \A sec \in Sections :
        /\ KeysOf(result[sec]) = ProposedKeys(gs, sec)
        /\ \A k \in ProposedKeys(gs, sec) :
              LET proposers == {i \in 1..Len(gs) :
                                  k \in KeysOf(Proposed(gs[i], sec))}
                  first == CHOOSE i \in proposers :
                              \A j \in proposers :
                                 RegistryIndex(gs[i]) <= RegistryIndex(gs[j])
              IN ValueOf(result[sec], k) = ValueOf(Proposed(gs[first], sec), k)

RECURSIVE SelectedPackagesFrom(_)
SelectedPackagesFrom(i) ==
    IF i > Len(groups) THEN <<>>
    ELSE (IF groups[i].label \in Range(selectedLabels)
          THEN groups[i].packages ELSE <<>>)
         \o SelectedPackagesFrom(i + 1)

FirstAppearance(seq, x) == Min({n \in 1..Len(seq) : seq[n] = x})

\* C7: getRequiredPackages(selected) is the union of the packages of the
\* selected groups, every name exactly once, ordered by first appearance in
\* registry order; it is empty when no selected group declares packages.
C7_RequiredPackages ==
    aggStep # "start" =>
        LET all == SelectedPackagesFrom(1)
        IN /\ Range(requiredDeps) = Range(all)
           /\ \A i, j \in 1..Len(requiredDeps) :
                 requiredDeps[i] = requiredDeps[j] => i = j
           /\ \A i, j \in 1..Len(requiredDeps) :
                 i < j => FirstAppearance(all, requiredDeps[i])
                            < FirstAppearance(all, requiredDeps[j])

\* two selected groups declare the same package and the result has two names
C7_Witness ==
    /\ aggStep # "start"
    /\ Len(requiredDeps) = 2
    /\ \E i, j \in 1..Len(selected) :
          /\ i # j
          /\ Range(selected[i].packages) \cap Range(selected[j].packages) # {}

(***************************************************************************)
(* Claims about a run of main() (Spec)                                     *)
(***************************************************************************)
\* nothing of the working directory differs from what the run found, and
\* the run has written no file, patched no manifest, run ensureStandaloneOutput
\* not at all and invoked no installer
Untouched ==
    /\ cwd = atStart.cwd
    /\ disk = atStart.disk
    /\ fileWrites = <<>>
    /\ pkgWrites = 0
    /\ nextResult = "none"
    /\ installs = <<>>

UserEnded == pc \in {"cancelled", "noExtras", "declined"}

\* C8: as long as the confirm prompt has not returned true, no file is
\* written, package.json is not patched, no next.config is touched and no
\* installer is invoked; a run the user ended by aborting a prompt, selecting
\* no group or declining the confirmation has exit code 0 and leaves the
\* working directory as it found it.
C8_NoMutationBeforeConfirmation ==
    /\ shouldContinue # "true" => Untouched
    /\ UserEnded => exitCode = 0 /\ Untouched

\* a run declined at the confirm prompt that had files to write, packages to
\* install, package.json entries to add and a next.config to configure
C8_Witness ==
    /\ pc = "declined"
    /\ shouldContinue = "false"
    /\ Len(filesToApply) > 0
    /\ Len(requiredDeps) > 0
    /\ ctx.framework = "nextjs"
    /\ updatePackageJson(disk, getPackageJsonMods(selected, ctx)).wrote
    /\ ensureStandaloneOutput(cwd).status \in {"created", "updated"}

\* the existing target paths the user left unpicked at the overwrite prompt
LeftUnpicked == Range(existingFiles) \ filesToOverwrite

\* C9: a target path that held a file when checkExistingFiles ran and that
\* the overwrite prompt's answer does not contain is never written by the
\* run: copyFile is not called on it and its content stays what it was.
C9_SkippedFilesKept ==
    \A path \in LeftUnpicked :
        /\ path \notin Range(fileWrites)
        /\ cwd[path] = atStart.cwd[path]

\* a finished run that wrote files and left an existing one unpicked, in a
\* group of which it wrote another file
C9_Witness ==
    /\ pc = "done"
    /\ \E i \in 1..Len(selected) :
        /\ \E j \in 1..Len(selected[i].files) :
                selected[i].files[j].targetPath \in LeftUnpicked
        /\ \E j \in 1..Len(selected[i].files) :
                selected[i].files[j].targetPath \in Range(fileWrites)

\* every file of group g was skipped at the overwrite prompt
AllFilesSkipped(g) ==
    \A j \in 1..Len(g.files) : g.files[j].targetPath \in Range(filesToSkip)

\* the selected groups of which at least one file is applied
AppliedGroups ==
    {i \in 1..Len(selected) : ~AllFilesSkipped(selected[i])}

\* C10: a selected group all of whose files were skipped at the overwrite
\* prompt contributes nothing: a package only such groups require is not in
\* the install list, and a script or config key only such groups propose
\* is not added to package.json.
C10_SkippedExcludedFromAggregation ==
    pc \in {"confirm", "nextConfig", "copy", "patch", "install", "done"} =>
        /\ \A pkg \in Range(requiredDeps) :
                \E i \in AppliedGroups : pkg \in Range(selected[i].packages)
        /\ \A n \in 1..Len(added) :
                \E i \in AppliedGroups :
                    LET m == EvalPackageJson(selected[i], ctx)
                    IN \/ \E k \in 1..Len(m.scripts) :
                            added[n] = ScriptDescriptor(m.scripts[k].key)
                       \/ \E k \in 1..Len(m.config) :
                            added[n] = ConfigDescriptor(m.config[k].key)

\* C11: when package.json exists but is not valid JSON, the run writes no
\* template file, creates or changes no next.config and runs no installer.
C11_MalformedManifestNoMutation ==
    (atStart.disk.exists /\ ~atStart.disk.valid) =>
        /\ fileWrites = <<>>
        /\ cwd = atStart.cwd
        /\ nextResult = "none"
        /\ installs = <<>>

\* C12: when package.json is absent, the run goes from its start straight to
\* exit code 1: no detection has built a context, no prompt has answered,
\* nothing is written.
C12_MissingManifestExitsFirst ==
    ~atStart.disk.exists =>
        /\ pc \in {"start", "noPackageJson"}
        /\ pc = "noPackageJson" => exitCode = 1
        /\ ctx = DefaultCtx /\ groups = <<>>
        /\ selectedLabels = <<>> /\ shouldContinue = "unanswered"
        /\ Untouched

\* the run has exited on a missing package.json in a directory where
\* detection would have found a lock file, a next.config and a target file
C12_Witness ==
    /\ pc = "noPackageJson"
    /\ exitCode = 1
    /\ ~disk.exists
    /\ detectPackageManager(cwd).pm # "npm"
    /\ getNextConfigPath(cwd) # "null"
    /\ \E path \in TargetPaths : existsSync(cwd, path)

\* C13: when copyFile throws on one file of filesToApply, every other file
\* of filesToApply is still written.
C13_OtherFilesStillWritten ==
    pc = "copyFailed" =>
        \A i \in 1..Len(filesToApply) :
            i # Len(fileWrites) + 1 =>
                filesToApply[i].targetPath \in Range(fileWrites)

\* the files copyFile wrote hold what it wrote
WrittenFilesInPlace ==
    \A i \in 1..Len(filesToApply) :
        filesToApply[i].targetPath \in Range(fileWrites) =>
            cwd[filesToApply[i].targetPath] = ContentOf(filesToApply[i], ctx)

\* package.json is what updatePackageJson left
ManifestAdditionsInPlace ==
    disk = updatePackageJson(atStart.disk, mods).disk

\* C14: once the installer has failed, the run is complete with exit code
\* 0, the warning names the install command to run by hand, and the files
\* written and the package.json additions are still in place.
C14_InstallFailureNonFatal ==
    \A n \in 1..Len(installs) :
        ~installs[n].ok =>
            /\ pc = "done"
            /\ exitCode = 0
            /\ installs[n].warned =
                    "Run manually: " \o getInstallCommand(ctx.pm, requiredDeps)
            /\ WrittenFilesInPlace
            /\ ManifestAdditionsInPlace

\* a failed install after files were written and package.json was patched
C14_Witness ==
    /\ pc = "done"
    /\ Len(installs) = 1 /\ ~installs[1].ok
    /\ Len(fileWrites) > 0
    /\ Len(added) > 0 /\ disk # atStart.disk

(***************************************************************************)
(* Claims about resolveGroups (SpecResolve)                                *)
(***************************************************************************)
Resolved == aggStep # "registry"

\* the target paths of the files of a resolved group, in order
PathsOf(g) == [n \in 1..Len(g.files) |-> g.files[n].targetPath]

\* the resolved groups with the given label
Labelled(label) == {k \in 1..Len(groups) : groups[k].label = label}

\* C15: on the registry of templates.ts, a nextjs context resolves no file
\* with target path nginx.conf; a vite-tanstack-router context resolves the
\* Deployment + CI/CD group with Dockerfile, .github/workflows/deploy.yml
\* and nginx.conf.
C15_NginxOnlyOutsideNextjs ==
    (Resolved /\ templateGroups = TEMPLATE_GROUPS) =>
        /\ ctx.framework = "nextjs" =>
                \A k \in 1..Len(groups) : "nginx.conf" \notin Range(PathsOf(groups[k]))
        /\ ctx.framework = "vite-tanstack-router" =>
                /\ Labelled("Deployment + CI/CD") # {}
                /\ \A k \in Labelled("Deployment + CI/CD") :
                        {"Dockerfile", ".github/workflows/deploy.yml",
                         "nginx.conf"} \subseteq Range(PathsOf(groups[k]))

\* a nextjs context resolved: the deployment group is there without nginx.conf
C15_Witness ==
    /\ Resolved
    /\ templateGroups = TEMPLATE_GROUPS
    /\ ctx.framework = "nextjs"
    /\ \E k \in Labelled("Deployment + CI/CD") :
            PathsOf(groups[k]) = <<"Dockerfile", ".github/workflows/deploy.yml">>

\* C16: on the registry of templates.ts, the API Client group resolves to
\* src/lib/api-client.ts and src/lib/config.ts when cwd has a src directory
\* and to lib/api-client.ts and lib/config.ts when it has none.
C16_ApiClientPaths ==
    (Resolved /\ templateGroups = TEMPLATE_GROUPS) =>
        /\ Labelled("API Client") # {}
        /\ \A k \in Labelled("API Client") :
                PathsOf(groups[k]) =
                    IF ctx.srcDir
                    THEN <<"src/lib/api-client.ts", "src/lib/config.ts">>
                    ELSE <<"lib/api-client.ts", "lib/config.ts">>

\* a context with a src directory resolved
C16_Witness ==
    /\ Resolved
    /\ templateGroups = TEMPLATE_GROUPS
    /\ ctx.srcDir
    /\ \E k \in Labelled("API Client") :
            groups[k].files[1].targetPath = "src/lib/api-client.ts"

\* the file definitions of registry group i that the context includes
IncludedDefs(i) ==
    {j \in 1..Len(templateGroups[i].files) :
        CASE templateGroups[i].files[j].when = "notNextjs" ->
                ctx.framework # "nextjs"
          [] templateGroups[i].files[j].when = "biome" -> ctx.tooling = "biome"
          [] OTHER -> TRUE}

\* the registry groups all of whose files the context excludes
SuppressedGroups ==
    {i \in 1..Len(templateGroups) : IncludedDefs(i) = {}}

KeptGroups == (1..Len(templateGroups)) \ SuppressedGroups

\* C17: every resolved group has at least one file; a registry group all of
\* whose files are excluded is not among the resolved groups, and once the
\* resolved groups are aggregated, a package or script only such groups
\* declare is in neither the required packages nor the mods.
C17_EmptyGroupsSuppressed ==
    Resolved =>
        /\ \A k \in 1..Len(groups) : Len(groups[k].files) >= 1
        /\ \A i \in SuppressedGroups :
                Labelled(templateGroups[i].label) = {}
        /\ aggStep = "selected" =>
                /\ \A pkg \in Range(requiredDeps) :
                        \E i \in KeptGroups :
                            /\ templateGroups[i].hasPackages
                            /\ pkg \in Range(templateGroups[i].packages)
                /\ \A n \in 1..Len(mods.scripts) :
                        \E i \in KeptGroups :
                            mods.scripts[n].key \in
                                KeysOf(EvalPackageJson(templateGroups[i], ctx).scripts)

\* a registry of two groups, the first suppressed and the second kept, has
\* been resolved and aggregated
C17_Witness ==
    /\ aggStep = "selected"
    /\ Len(templateGroups) = 2
    /\ SuppressedGroups = {1}
    /\ Len(groups) = 1
    /\ requiredDeps = templateGroups[2].packages

\* the m-th element of a set of positions, in increasing order
NthOf(S, m) == CHOOSE i \in S : Cardinality({h \in S : h < i}) = m - 1

\* `sep`-joined strings, built from the right end
RECURSIVE JoinedWith(_, _, _)
JoinedWith(strs, sep, n) ==
    IF n = 0 THEN ""
    ELSE IF n = 1 THEN strs[1]
    ELSE JoinedWith(strs, sep, n - 1) \o sep \o strs[n]

\* C18: the resolved groups are the kept registry groups in registry order,
\* the files of each are its included definitions in definition order, and
\* its hint is their target paths joined with ", ".
C18_RegistryOrderPreserved ==
    Resolved =>
        /\ Len(groups) = Cardinality(KeptGroups)
        /\ \A k \in 1..Len(groups) :
            LET i == NthOf(KeptGroups, k)
                defs == templateGroups[i].files
            IN /\ groups[k].label = templateGroups[i].label
               /\ Len(groups[k].files) = Cardinality(IncludedDefs(i))
               /\ \A n \in 1..Len(groups[k].files) :
                    LET def == defs[NthOf(IncludedDefs(i), n)]
                    IN groups[k].files[n].targetPath \in
                            {def.targetPath, def.targetPathWithSrc}
               /\ groups[k].hint =
                    JoinedWith(PathsOf(groups[k]), ", ", Len(groups[k].files))

\* the registry of templates.ts resolved for a nextjs, biome context: four
\* groups in declaration order, the first with the hint of its two files
C18_Witness ==
    /\ Resolved
    /\ templateGroups = TEMPLATE_GROUPS
    /\ ctx.framework = "nextjs" /\ ctx.tooling = "biome"
    /\ [k \in 1..Len(groups) |-> groups[k].label] =
            <<"Deployment + CI/CD", "Editor Setup", "Pre-commit Hook",
              "API Client">>
    /\ groups[1].hint = "Dockerfile, .github/workflows/deploy.yml"
    /\ PathsOf(groups[2]) =
            <<".editorconfig", ".vscode/extensions.json", ".zed/settings.json">>

(***************************************************************************)
(* Claims about ensureStandaloneOutput and the check script (Spec)         *)
(***************************************************************************)
\* the next.config paths whose content differs from what the run found
ChangedNextConfigs ==
    {path \in Range(NEXTJS_CONFIG_FILES) : cwd[path] # atStart.cwd[path]}

\* C19: when ensureStandaloneOutput returned manual-required or
\* already-configured (or has not run), every next.config file is what it
\* was; when it returned created or updated, it wrote one file: the new
\* next.config.ts, or the config file it found.
C19_NoGuessing ==
    /\ nextResult \in {"none", "manual-required", "already-configured"} =>
            ChangedNextConfigs = {}
    /\ nextResult = "created" =>
            /\ getNextConfigPath(atStart.cwd) = "null"
            /\ ChangedNextConfigs = {"next.config.ts"}
    /\ nextResult = "updated" =>
            ChangedNextConfigs = {getNextConfigPath(atStart.cwd)}

\* a wrapped config without output setting got manual-required
C19_Witness ==
    /\ nextResult = "manual-required"
    /\ getNextConfigPath(cwd) # "null"
    /\ ShapeOf(cwd[getNextConfigPath(cwd)]) = "wrapped"
    /\ OutputOf(cwd[getNextConfigPath(cwd)]) = "none"

\* C20: in a vite-tanstack-router project the mods the run computes propose
\* no check script and the run adds none; in a nextjs project a run that
\* patched package.json added a check script that was missing, with the
\* command of the detected tooling.
C20_CheckScriptNextjsOnly ==
    pc \in {"install", "done"} =>
        /\ ctx.framework = "vite-tanstack-router" =>
                /\ "check" \notin KeysOf(mods.scripts)
                /\ ScriptDescriptor("check") \notin Range(added)
        /\ (ctx.framework = "nextjs"
                /\ ~ScriptPresent(atStart.disk.pkg, "check")) =>
                /\ ScriptDescriptor("check") \in Range(added)
                /\ ScriptPresent(disk.pkg, "check")
                /\ disk.pkg.scripts["check"] = getCheckScript(ctx.tooling)

(***************************************************************************)
(* Claims about the run's reads and writes of package.json (Spec)          *)
(***************************************************************************)
\* C21: a run never reads package.json a second time and never writes it a
\* second time; a completed run has read it exactly once.
C21_ManifestReadOnceWrittenOnce ==
    /\ pkgReads <= 1
    /\ pkgWrites <= 1
    /\ pc = "done" => pkgReads = 1

(***************************************************************************)
(* Claims about the frame of updatePackageJson (SpecPatch)                 *)
(***************************************************************************)
\* the keys the mods do not propose keep their presence and value over a call
UnproposedKept ==
    calls >= 1 =>
        /\ \A k \in ScriptKeys \ ProposedScriptKeys :
              ScriptPresent(before.pkg, k) =>
                  /\ ScriptPresent(disk.pkg, k)
                  /\ disk.pkg.scripts[k] = before.pkg.scripts[k]
        /\ \A k \in DOMAIN before.pkg.top \ ProposedConfigKeys :
              /\ k \in DOMAIN disk.pkg.top
              /\ disk.pkg.top[k] = before.pkg.top[k]
        /\ before.pkg.deps = disk.pkg.deps

\* C22: updatePackageJson is additive only: the keys the mods do not propose
\* keep their values, and no script or top-level key the manifest held
\* before the call is removed or given another value by the call.
C22_AdditiveOnly ==
    /\ UnproposedKept
    /\ calls >= 1 =>
          /\ before.pkg.hasScripts => disk.pkg.hasScripts
          /\ \A k \in ScriptKeys :
                ScriptPresent(before.pkg, k) =>
                    /\ ScriptPresent(disk.pkg, k)
                    /\ disk.pkg.scripts[k] = before.pkg.scripts[k]
          /\ \A k \in DOMAIN before.pkg.top :
                /\ k \in DOMAIN disk.pkg.top
                /\ disk.pkg.top[k] = before.pkg.top[k]

(***************************************************************************)
(* Claims about package manager detection (SpecDetect)                     *)
(***************************************************************************)
LockFilePresent(i) == existsSync(cwd, LOCK_FILES[i].file)

\* C23: detectPackageManager returns, with inferred = false, the package
\* manager of the first lock file present in the order bun.lock, bun.lockb,
\* pnpm-lock.yaml, yarn.lock, package-lock.json, and returns npm with
\* inferred = true exactly when no lock file is present.
C23_FirstLockFileWins ==
    pmResult # NoDetection =>
        /\ \A i \in 1..Len(LOCK_FILES) :
              (LockFilePresent(i) /\ \A j \in 1..(i - 1) : ~LockFilePresent(j))
                  => pmResult = [pm |-> LOCK_FILES[i].pm, inferred |-> FALSE]
        /\ pmResult = [pm |-> "npm", inferred |-> TRUE]
              <=> \A i \in 1..Len(LOCK_FILES) : ~LockFilePresent(i)
        /\ LOCK_FILES[1].file = "bun.lock" /\ LOCK_FILES[2].file = "bun.lockb"
        /\ LOCK_FILES[3].file = "pnpm-lock.yaml"
        /\ LOCK_FILES[4].file = "yarn.lock"
        /\ LOCK_FILES[5].file = "package-lock.json"

\* bun was detected in a directory that also holds the lock files of pnpm
\* and npm
C23_Witness ==
    /\ pmResult = [pm |-> "bun", inferred |-> FALSE]
    /\ existsSync(cwd, "pnpm-lock.yaml")
    /\ existsSync(cwd, "package-lock.json")

\* C30: when detectPackageManager returned pm with inferred = false, the
\* lock file getPMConfig(pm, {cwd}) names exists in cwd, for bun with either
\* of its two lock files.
C30_DetectedLockfileExists ==
    (/\ pmResult # NoDetection
     /\ ~pmResult.inferred
     /\ pmConfig.pm = pmResult.pm)
        => existsSync(cwd, pmConfig.lockfile)

\* bun was detected from bun.lockb alone and getPMConfig named bun.lockb
C30_Witness ==
    /\ pmResult = [pm |-> "bun", inferred |-> FALSE]
    /\ ~existsSync(cwd, "bun.lock")
    /\ pmConfig.pm = "bun"
    /\ pmConfig.lockfile = "bun.lockb"

(***************************************************************************)
(* Claims about ensureStandaloneOutput called twice (SpecNextConfig)       *)
(***************************************************************************)
\* what the call that makes this step leaves behind when it returns created
\* or updated
StandaloneAfterCall ==
    nextResult' \in {"created", "updated"} =>
        LET path == getNextConfigPath(cwd')
        IN /\ path # "null"
           /\ OutputOf(cwd'[path]) = "standalone"
           /\ \A other \in Paths \ {path} : cwd'[other] = cwd[other]
           /\ nextResult' = "created" =>
                 /\ getNextConfigPath(cwd) = "null"
                 /\ path = "next.config.ts"
           /\ nextResult' = "updated" =>
                 /\ path = getNextConfigPath(cwd)
                 /\ ShapeOf(cwd'[path]) = ShapeOf(cwd[path])

\* the call that follows a call that returned created or updated
FollowingCallIsNoOp ==
    nextResult \in {"created", "updated"} =>
        /\ nextResult' = "already-configured"
        /\ cwd' = cwd

\* C24: after a call of ensureStandaloneOutput that returns created or
\* updated the config file holds output: "standalone" (for updated, the same
\* file with its previous content kept), and the call that follows it
\* returns already-configured and leaves the directory as it is.
C24_StandaloneIdempotent ==
    [][StandaloneAfterCall /\ FollowingCallIsNoOp]_vars

\* two calls were made on a directory whose first next.config file had no
\* output member: the first changed the file, the second found it configured
C24_Witness ==
    /\ calls = 2
    /\ nextResult = "already-configured"
    /\ getNextConfigPath(atStart.cwd) # "null"
    /\ OutputOf(atStart.cwd[getNextConfigPath(atStart.cwd)]) = "none"
    /\ cwd # atStart.cwd

(***************************************************************************)
(* Claims about the order of the mutating steps of a run (Spec)            *)
(***************************************************************************)
TargetsOf(files) == [i \in 1..Len(files) |-> files[i].targetPath]

\* the next.config patch: in a Next.js project, once, before every other
\* mutating step
NextConfigStepFirst ==
    nextResult' # nextResult =>
        /\ pc = "nextConfig"
        /\ ctx.framework = "nextjs"
        /\ nextResult = "none"
        /\ fileWrites = <<>> /\ calls = 0 /\ installs = <<>>
        /\ fileWrites' = <<>> /\ calls' = 0 /\ installs' = <<>>

\* the file writes: in one step, after the next.config patch of a Next.js
\* project, before the package.json patch and the installer
CopyStepSecond ==
    fileWrites' # fileWrites =>
        /\ pc = "copy"
        /\ fileWrites = <<>>
        /\ ctx.framework = "nextjs" => nextResult # "none"
        /\ calls = 0 /\ installs = <<>>
        /\ calls' = 0 /\ installs' = <<>> /\ nextResult' = nextResult

\* the package.json patch: once, after all of filesToApply was written,
\* before the installer
PatchStepThird ==
    (calls' # calls \/ disk' # disk \/ pkgWrites' # pkgWrites) =>
        /\ pc = "patch"
        /\ calls = 0 /\ calls' = 1
        /\ fileWrites = TargetsOf(filesToApply)
        /\ installs = <<>> /\ installs' = <<>>
        /\ fileWrites' = fileWrites /\ nextResult' = nextResult /\ cwd' = cwd

\* the installer: once, after the package.json patch, with a non-empty list
InstallStepLast ==
    installs' # installs =>
        /\ pc = "install"
        /\ installs = <<>> /\ Len(installs') = 1
        /\ calls = 1
        /\ Len(requiredDeps) > 0
        /\ fileWrites' = fileWrites /\ nextResult' = nextResult
        /\ cwd' = cwd /\ disk' = disk /\ calls' = calls

\* a run that got past the confirmation of a Next.js project has called
\* ensureStandaloneOutput, whatever was selected; no other run has; a run
\* that reached its end invoked the installer iff requiredDeps is non-empty
StepsTaken ==
    /\ (pc \in {"copy", "patch", "install", "done", "copyFailed",
                "manifestUnreadable"} /\ ctx.framework = "nextjs")
          => nextResult # "none"
    /\ nextResult # "none" => ctx.framework = "nextjs"
    /\ pc = "done" =>
          /\ fileWrites = TargetsOf(filesToApply)
          /\ calls = 1
          /\ Len(installs) = 1 <=> Len(requiredDeps) > 0
          /\ Len(installs) <= 1

\* C25: after the confirmation the mutating steps happen in the order
\* next.config patch (Next.js only, whatever groups were selected), file
\* writes, package.json patch, installer, each at most once; a run that no
\* throw ended invokes the installer iff the aggregated package list is
\* non-empty.
C25_MutatingStepsInOrder ==
    /\ [][/\ NextConfigStepFirst
          /\ CopyStepSecond
          /\ PatchStepThird
          /\ InstallStepLast]_vars
    /\ []StepsTaken

\* a Next.js run without the Deployment + CI/CD group went through all four
\* steps
C25_Witness ==
    /\ pc = "done"
    /\ ctx.framework = "nextjs"
    /\ nextResult \in {"created", "updated"}
    /\ "Deployment + CI/CD" \notin Range(selectedLabels)
    /\ Len(fileWrites) > 0
    /\ pkgWrites = 1
    /\ Len(installs) = 1

(***************************************************************************)
(* Claims about what a written file relies on (Spec)                       *)
(***************************************************************************)
Written(path) == path \in Range(fileWrites)

NonEmptyScript(pkg, key) == ScriptPresent(pkg, key) /\ pkg.scripts[key] # ""

\* C26: after a completed run that wrote .github/workflows/deploy.yml,
\* package.json has a non-empty check script and a non-empty typecheck
\* script.
C26_DeployYmlScriptsExist ==
    (pc = "done" /\ Written(".github/workflows/deploy.yml")) =>
        /\ NonEmptyScript(disk.pkg, "check")
        /\ NonEmptyScript(disk.pkg, "typecheck")

\* deploy.yml was written in a project whose manifest held an empty check
\* script
C26_Witness ==
    /\ pc = "done"
    /\ Written(".github/workflows/deploy.yml")
    /\ ScriptPresent(atStart.disk.pkg, "check")
    /\ atStart.disk.pkg.scripts["check"] = ""

\* C27: after a completed run that wrote .husky/pre-commit, the aggregated
\* install list held husky and lint-staged, and package.json has a non-empty
\* prepare script and a top-level lint-staged key.
C27_PreCommitHookSupported ==
    (pc = "done" /\ Written(".husky/pre-commit")) =>
        /\ {"husky", "lint-staged"} \subseteq Range(requiredDeps)
        /\ Len(installs) = 1
        /\ installs[1].cmd = getInstallCommand(ctx.pm, requiredDeps)
        /\ NonEmptyScript(disk.pkg, "prepare")
        /\ "lint-staged" \in DOMAIN disk.pkg.top

\* the hook was written in a project whose manifest held an empty prepare
\* script and a null lint-staged member, and in one that held neither
C27_Witness ==
    /\ pc = "done"
    /\ Written(".husky/pre-commit")
    /\ \/ /\ ScriptPresent(atStart.disk.pkg, "prepare")
          /\ atStart.disk.pkg.scripts["prepare"] = ""
          /\ atStart.disk.pkg.top["lint-staged"] = "null"
       \/ /\ ~atStart.disk.pkg.hasScripts
          /\ "lint-staged" \notin DOMAIN atStart.disk.pkg.top

\* C28: after a completed run in a vite-tanstack-router project that wrote
\* Dockerfile, nginx.conf exists in the working directory: this run wrote
\* it, or it was there at the start and the run left it as it was.
C28_NginxConfForViteDockerfile ==
    (/\ pc = "done"
     /\ ctx.framework = "vite-tanstack-router"
     /\ Written("Dockerfile")) =>
        /\ existsSync(cwd, "nginx.conf")
        /\ \/ Written("nginx.conf")
           \/ /\ existsSync(atStart.cwd, "nginx.conf")
              /\ "nginx.conf" \in Range(filesToSkip)
              /\ cwd["nginx.conf"] = atStart.cwd["nginx.conf"]

\* a Vite run wrote Dockerfile and skipped the nginx.conf that was there
C28_Witness ==
    /\ pc = "done"
    /\ ctx.framework = "vite-tanstack-router"
    /\ Written("Dockerfile")
    /\ ~Written("nginx.conf")
    /\ "nginx.conf" \in Range(filesToSkip)

(***************************************************************************)
(* Claims about the identity of groups and files (SpecResolve)             *)
(***************************************************************************)
\* every resolved file, with the group it belongs to
ResolvedFiles ==
    {kn \in (1..Len(groups)) \X (1..Len(FlatFiles(groups, 1))) :
        kn[2] <= Len(groups[kn[1]].files)}

\* C29: on the registry of templates.ts, for every context, the labels of
\* the resolved groups are pairwise distinct and the target paths of all
\* resolved files are pairwise distinct, so a label selects one group and a
\* skipped target path drops one file.
C29_LabelsAndPathsDistinct ==
    (Resolved /\ templateGroups = TEMPLATE_GROUPS) =>
        /\ \A j, k \in 1..Len(groups) :
              groups[j].label = groups[k].label => j = k
        /\ \A a, b \in ResolvedFiles :
              groups[a[1]].files[a[2]].targetPath
                    = groups[b[1]].files[b[2]].targetPath => a = b
        /\ \A k \in 1..Len(groups) :
              FilterSelected(groups, <<groups[k].label>>) = <<groups[k]>>
        /\ \A a \in ResolvedFiles :
              LET allFiles == FlatFiles(groups, 1)
                  path == groups[a[1]].files[a[2]].targetPath
              IN Len(FilesToApply(allFiles, <<path>>, 1)) = Len(allFiles) - 1

\* the registry of templates.ts resolved for a biome Vite project with a src
\* directory: four groups, nine files
C29_Witness ==
    /\ Resolved
    /\ templateGroups = TEMPLATE_GROUPS
    /\ ctx.srcDir /\ ctx.tooling = "biome"
    /\ ctx.framework = "vite-tanstack-router"
    /\ Len(groups) = 4
    /\ Cardinality(ResolvedFiles) = 9
====
